---- MODULE Spec2Model ----
(***************************************************************************)
(* Model of settings_server.cpp: the SQLite-backed settings / chat-history *)
(* store behind the HTTP handlers.  The three tables, the process-wide     *)
(* db_mutex, the clock and each worker thread's position in the function   *)
(* it is executing are the state; one action per function body.            *)
(***************************************************************************)
EXTENDS Integers, Sequences, FiniteSets, TLC

VARIABLES
    users,      \* table users:    user_id -> [name, email, avatar_url, created_at]
    settings,   \* table settings: user_id -> [theme_mode, ..., updated_at]
    chat,       \* table chat_history: set of rows [id, user_id, role, message, created_at]
    seq,        \* sqlite_sequence entry of chat_history (AUTOINCREMENT high-water mark)
    now,        \* the second iso_now() currently reports
    db_mutex,   \* std::mutex db_mutex: the thread that owns it, or NoThread
    relock,     \* what this build does when a thread locks a std::mutex it already owns
    pc,         \* per thread: position in the function it executes
    op,         \* per thread: the call it executes (function name and arguments)
    ret,        \* per thread: what the call returned
    before,     \* per thread: the rows of the call's user when its body started
    calls,      \* number of calls issued so far
    faults      \* number of storage failures injected so far

vars == <<users, settings, chat, seq, now, db_mutex, relock, pc, op, ret, before, calls, faults>>

-----------------------------------------------------------------------------
(* Bounds of the model *)

MaxClock == 1
MaxCalls == 2
MaxFaults == 1
MaxKeys == 2
MaxEntries == 2
MaxAppends == 3

Threads == {"t1", "t2"}
Users == {"u1", "u2"}
NoThread == "none"

-----------------------------------------------------------------------------
(* SQL values.  INTEGER columns hold 0/1 or NULL, TEXT columns a string or  *)
(* NULL; timestamps are the clock's second count.                          *)

NullText == "<NULL>"
NullInt == -9
Unset == -1

BoolKeys == {"dark_mode", "notifications_enabled", "chat_notifications",
             "update_notifications", "reminder_notifications", "biometric_lock"}
TextKeys == {"theme_mode", "language", "app_version"}
ProfileKeys == {"name", "email", "avatar_url"}
SettingsCols == BoolKeys \cup TextKeys \cup {"updated_at"}
IntCols == BoolKeys \cup {"updated_at", "created_at"}

Max(a, b) == IF a >= b THEN a ELSE b
Min(a, b) == IF a <= b THEN a ELSE b

Contains(j, k) == k \in DOMAIN j

Coalesce(k, x, y) ==
    IF k \in IntCols THEN (IF x # NullInt THEN x ELSE y)
                     ELSE (IF x # NullText THEN x ELSE y)

-----------------------------------------------------------------------------
(* The database as one value, so that function bodies compose. *)

DB == [users |-> users, settings |-> settings, chat |-> chat, seq |-> seq]

(* INSERT OR REPLACE in place of INSERT OR IGNORE *)
InsertOrReplace(tbl, u, row) == [x \in (DOMAIN tbl) \cup {u} |-> IF x = u THEN row ELSE tbl[x]]

InsertOrIgnore(tbl, u, row) == IF u \in DOMAIN tbl THEN tbl ELSE tbl @@ (u :> row)

DefaultUser(t) ==
    [name |-> "User Name", email |-> "user@example.com", avatar_url |-> "", created_at |-> t]

DefaultSettings(t) ==
    [theme_mode |-> "System", dark_mode |-> 0, notifications_enabled |-> 1,
     chat_notifications |-> 1, update_notifications |-> 1, reminder_notifications |-> 0,
     language |-> "English", biometric_lock |-> 0, app_version |-> "1.0.0", updated_at |-> t]

(* A storage step that fails: f is the set of failing steps of this call,   *)
(* each named <<site, step>>.                                              *)
Fails(f, site, step) == <<site, step>> \in f

(* ensure_user_exists: two INSERT OR IGNORE in one transaction on a        *)
(* connection of its own.  A failed prepare/step skips that insert; a      *)
(* failed COMMIT leaves the transaction open and sqlite3_close rolls it    *)
(* back.  Nothing is reported.                                             *)
EnsureUserExists(db, u, t, f, site) ==
    IF Fails(f, site, "open") THEN db
    ELSE LET us == IF Fails(f, site, "users") THEN db.users
                   ELSE InsertOrIgnore(db.users, u, DefaultUser(t))
             ss == IF Fails(f, site, "settings") THEN db.settings
                   ELSE InsertOrIgnore(db.settings, u, DefaultSettings(t))
         IN IF Fails(f, site, "commit") THEN db
            ELSE [db EXCEPT !.users = us, !.settings = ss]

-----------------------------------------------------------------------------
(* upsert_settings *)

(* lines 277, 283, 285: a text key read from the JSON, "" when absent *)
TextLocal(j, k) == IF Contains(j, k) THEN j[k] ELSE ""

(* lines 278-284: a boolean key read from the JSON as 1/0, -1 when absent *)
IntLocal(j, k) == IF Contains(j, k) THEN (IF j[k] THEN 1 ELSE 0) ELSE Unset

(* lines 292-293, 300, 302: bind the text unless it is empty, else NULL *)
BindText(s) == IF s # "" THEN s ELSE NullText

(* BindInt with a truthiness test in place of the comparison with -1 *)
BindInt_Truthy(v) == IF v > 0 THEN v ELSE NullInt

(* lines 295-301: bind the int unless it is -1, else NULL *)
BindInt(v) == IF v # Unset THEN v ELSE NullInt

(* lines 245-250: profile parameters are bound from contains(), else NULL *)
BindProfile(j, k) == IF Contains(j, k) THEN j[k] ELSE NullText

(* The VALUES row with NULL bound for updated_at. *)
Excluded_NoStamp(j, t) ==
    [k \in SettingsCols |->
        IF k \in BoolKeys THEN BindInt(IntLocal(j, k))
        ELSE IF k \in TextKeys THEN BindText(TextLocal(j, k))
        ELSE NullInt]

(* The row of the VALUES clause, the "excluded" row of the upsert. *)
Excluded(j, t) ==
    [k \in SettingsCols |->
        IF k \in BoolKeys THEN BindInt(IntLocal(j, k))
        ELSE IF k \in TextKeys THEN BindText(TextLocal(j, k))
        ELSE t]

(* INSERT ... ON CONFLICT(user_id) DO UPDATE SET c = COALESCE(excluded.c, settings.c) *)
UpsertSettingsRow(ss, u, ex) ==
    IF u \in DOMAIN ss
    THEN [ss EXCEPT ![u] = [k \in SettingsCols |-> Coalesce(k, ex[k], ss[u][k])]]
    ELSE ss @@ (u :> ex)

(* UPDATE users SET name = COALESCE(?, name), ... WHERE user_id = ? *)
UpdateUsersRow(us, u, j) ==
    IF u \in DOMAIN us
    THEN [us EXCEPT ![u] = [k \in DOMAIN us[u] |->
                              IF k \in ProfileKeys
                              THEN Coalesce(k, BindProfile(j, k), us[u][k])
                              ELSE us[u][k]]]
    ELSE us

(* Body of upsert_settings once db_mutex is held: provisioning, then the   *)
(* two updates in a transaction on a second connection.  Returns the       *)
(* database and the function's result.                                     *)
UpsertSettings(db, u, j, t, f, site, esite) ==
    LET d1 == EnsureUserExists(db, u, t, f, esite)
    IN IF Fails(f, site, "open") THEN [db |-> d1, ok |-> FALSE]
       ELSE LET us == IF (Contains(j, "name") \/ Contains(j, "email") \/ Contains(j, "avatar_url"))
                         /\ ~Fails(f, site, "users")
                      THEN UpdateUsersRow(d1.users, u, j)
                      ELSE d1.users
                ss == IF Fails(f, site, "settings") THEN d1.settings
                      ELSE UpsertSettingsRow(d1.settings, u, Excluded(j, t))
            IN IF Fails(f, site, "commit") THEN [db |-> d1, ok |-> TRUE]
               ELSE [db |-> [d1 EXCEPT !.users = us, !.settings = ss], ok |-> TRUE]

-----------------------------------------------------------------------------
(* chat_history *)

RowsOf(rows, u) == {r \in rows : r.user_id = u}

MaxRowId(rows) == IF rows = {} THEN 0 ELSE CHOOSE m \in {r.id : r \in rows} : \A r \in rows : r.id <= m

(* The INSERT on a table whose id is INTEGER PRIMARY KEY without           *)
(* AUTOINCREMENT: one more than the largest id the table holds now.        *)
InsertChat_Rowid(db, u, role, message, created_at) ==
    LET id == MaxRowId(db.chat) + 1
    IN [db EXCEPT !.chat = @ \cup {[created_at |-> created_at, user_id |-> u, id |-> id,
                                    role |-> role, message |-> message]},
                  !.seq = id]

(* INSERT INTO chat_history(...) with id INTEGER PRIMARY KEY AUTOINCREMENT: *)
(* the new id is one more than the largest id the table ever held.         *)
InsertChat(db, u, role, message, created_at) ==
    LET id == Max(db.seq, MaxRowId(db.chat)) + 1
    IN [db EXCEPT !.chat = @ \cup {[created_at |-> created_at, user_id |-> u, id |-> id,
                                    role |-> role, message |-> message]},
                  !.seq = id]

(* A DELETE that matches no row. *)
DeleteChat_NoRow(db, u) == db

(* A DELETE without its WHERE clause. *)
DeleteChat_All(db, u) == [db EXCEPT !.chat = {}]

(* DELETE FROM chat_history WHERE user_id = ? *)
DeleteChat(db, u) == [db EXCEPT !.chat = @ \ RowsOf(@, u)]

(* ORDER BY id DESC *)
RECURSIVE OrderById_Desc(_)
OrderById_Desc(rows) ==
    IF rows = {} THEN <<>>
    ELSE LET first == CHOOSE r \in rows : \A q \in rows : r.id >= q.id
         IN <<first>> \o OrderById_Desc(rows \ {first})

(* ORDER BY id ASC *)
RECURSIVE OrderById(_)
OrderById(rows) ==
    IF rows = {} THEN <<>>
    ELSE LET first == CHOOSE r \in rows : \A q \in rows : r.id <= q.id
         IN <<first>> \o OrderById(rows \ {first})

(* SELECT role, message, created_at FROM chat_history WHERE user_id = ? ORDER BY id ASC *)
SelectHistory(db, u) ==
    LET rs == OrderById(RowsOf(db.chat, u))
    IN [i \in 1..Len(rs) |-> [created_at |-> rs[i].created_at, role |-> rs[i].role,
                              message |-> rs[i].message]]

(* append_chat_message once db_mutex is held: provisioning, then one       *)
(* autocommit INSERT.                                                      *)
AppendChatMessage(db, u, role, message, t, f) ==
    LET d1 == EnsureUserExists(db, u, t, f, "append.ensure")
    IN IF Fails(f, "append", "open") THEN [db |-> d1, ok |-> FALSE]
       ELSE IF Fails(f, "append", "insert") THEN [db |-> d1, ok |-> TRUE]
       ELSE [db |-> InsertChat(d1, u, role, message, t), ok |-> TRUE]

(* clear_chat_history once db_mutex is held *)
ClearChatHistory(db, u, f) ==
    IF Fails(f, "clear", "open") THEN [db |-> db, ok |-> FALSE]
    ELSE IF Fails(f, "clear", "delete") THEN [db |-> db, ok |-> TRUE]
    ELSE [db |-> DeleteChat(db, u), ok |-> TRUE]

-----------------------------------------------------------------------------
(* get_user_settings / export_user_data *)

(* sqlite3_column_int of a NULL is 0 *)
ColumnInt(v) == IF v = NullInt THEN 0 ELSE v

NoJson == <<>>

(* The row of the users JOIN settings query, as the JSON built from it. *)
SelectSettings(db, u) ==
    IF u \in DOMAIN db.users /\ u \in DOMAIN db.settings
    THEN LET us == db.users[u]
             ss == db.settings[u]
         IN [name |-> us.name, email |-> us.email, avatar_url |-> us.avatar_url, theme_mode |-> ss.theme_mode,
             dark_mode |-> (ColumnInt(ss.dark_mode) # 0),
             notifications_enabled |-> (ColumnInt(ss.notifications_enabled) # 0),
             chat_notifications |-> (ColumnInt(ss.chat_notifications) # 0),
             update_notifications |-> (ColumnInt(ss.update_notifications) # 0),
             reminder_notifications |-> (ColumnInt(ss.reminder_notifications) # 0),
             language |-> ss.language,
             biometric_lock |-> (ColumnInt(ss.biometric_lock) # 0),
             app_version |-> ss.app_version,
             updated_at |-> ss.updated_at,
             user_id |-> u]
    ELSE NoJson

(* sqlite3_column_text of a NULL is a null pointer; building a JSON string *)
(* from it is undefined.                                                   *)
ReadsNullText(db, u) ==
    /\ u \in DOMAIN db.users /\ u \in DOMAIN db.settings
    /\ \/ \E k \in ProfileKeys : db.users[u][k] = NullText
       \/ \E k \in TextKeys : db.settings[u][k] = NullText

(* get_user_settings once db_mutex is held (the defined case) *)
GetUserSettings(db, u, t, f) ==
    LET d1 == EnsureUserExists(db, u, t, f, "get.ensure")
    IN IF Fails(f, "get", "open") \/ Fails(f, "get", "select")
       THEN [db |-> d1, out |-> NoJson, undefined |-> FALSE]
       ELSE [db |-> d1, out |-> SelectSettings(d1, u), undefined |-> ReadsNullText(d1, u)]

-----------------------------------------------------------------------------
(* import_user_data *)

InsertStep == <<"insert1", "insert2", "insert3", "insert4">>

(* m.value(key, default) that yields the empty string for an absent key,   *)
(* whatever the default.                                                   *)
Value_Empty(m, k, default) == IF Contains(m, k) THEN m[k] ELSE ""

(* m.value(key, default) *)
Value(m, k, default) == IF Contains(m, k) THEN m[k] ELSE default

RECURSIVE ImportInserts(_, _, _, _, _, _)
ImportInserts(db, u, entries, i, t, f) ==
    IF i > Len(entries) THEN db
    ELSE LET m == entries[i]
             d == IF Fails(f, "import", InsertStep[i]) THEN db
                  ELSE InsertChat(db, u, Value(m, "role", "user"), Value(m, "message", ""),
                                  Value(m, "created_at", t))
         IN ImportInserts(d, u, entries, i + 1, t, f)

(* import_user_data with the DELETE of a replace outside the test for the  *)
(* chat_history key.                                                       *)
ImportUserData_DeleteFirst(db, u, payload, replace, t, f) ==
    LET d1 == EnsureUserExists(db, u, t, f, "import.ensure")
    IN IF Fails(f, "import", "open") THEN [db |-> d1, ok |-> FALSE]
       ELSE LET d2 == IF Contains(payload, "settings")
                      THEN UpsertSettings(d1, u, payload["settings"], t, f,
                                          "import.upsert", "import.upsert.ensure").db
                      ELSE d1
                d3 == IF replace /\ ~Fails(f, "import", "delete")
                      THEN DeleteChat(d2, u)
                      ELSE d2
                d4 == IF Contains(payload, "chat_history") /\ ~Fails(f, "import", "prepare")
                      THEN ImportInserts(d3, u, payload["chat_history"], 1, t, f)
                      ELSE d3
            IN IF Fails(f, "import", "commit") THEN [db |-> d2, ok |-> TRUE]
               ELSE [db |-> d4, ok |-> TRUE]

(* import_user_data once db_mutex is held.  The outer connection's         *)
(* transaction covers only the DELETE and the INSERTs; upsert_settings     *)
(* opens, commits and closes a connection of its own.                      *)
ImportUserData(db, u, payload, replace, t, f) ==
    LET d1 == EnsureUserExists(db, u, t, f, "import.ensure")
    IN IF Fails(f, "import", "open") THEN [db |-> d1, ok |-> FALSE]
       ELSE LET d2 == IF Contains(payload, "settings")
                      THEN UpsertSettings(d1, u, payload["settings"], t, f,
                                          "import.upsert", "import.upsert.ensure").db
                      ELSE d1
                d3 == IF Contains(payload, "chat_history") /\ replace /\ ~Fails(f, "import", "delete")
                      THEN DeleteChat(d2, u)
                      ELSE d2
                d4 == IF Contains(payload, "chat_history") /\ ~Fails(f, "import", "prepare")
                      THEN ImportInserts(d3, u, payload["chat_history"], 1, t, f)
                      ELSE d3
            IN IF Fails(f, "import", "commit") THEN [db |-> d2, ok |-> TRUE]
               ELSE [db |-> d4, ok |-> TRUE]

-----------------------------------------------------------------------------
(* Request handlers: the payload each one hands to upsert_settings *)

Restrict(j, keys) == [k \in (DOMAIN j) \cap keys |-> j[k]]

(* POST /profile *)
ProfilePayload(j) == Restrict(j, ProfileKeys)

(* POST /notifications *)
NotificationsPayload(j) ==
    Restrict(j, {"notifications_enabled", "chat_notifications",
                 "update_notifications", "reminder_notifications"})

(* POST /theme *)
ThemePayload(mode) == ("theme_mode" :> mode) @@ ("dark_mode" :> (mode = "Dark"))

(* POST /security/biometric *)
BiometricPayload(enabled) == ("biometric_lock" :> enabled)

UpsertCallers == {"upsert_settings", "set_profile", "set_notifications", "set_theme",
                  "set_biometric_lock"}

PayloadOf(o) ==
    CASE o.name = "upsert_settings" -> o.j
      [] o.name = "set_profile" -> ProfilePayload(o.j)
      [] o.name = "set_notifications" -> NotificationsPayload(o.j)
      [] o.name = "set_theme" -> ThemePayload(o.mode)
      [] o.name = "set_biometric_lock" -> BiometricPayload(o.enabled)

-----------------------------------------------------------------------------
(* Threads *)

(* Locking a std::mutex the calling thread already owns is undefined.      *)
(* The outcomes a build of this program produces: the thread blocks for    *)
(* ever (pthread default mutex), lock() throws std::system_error           *)
(* (error-checking mutex), or the lock is counted and the call goes on     *)
(* (MSVC's std::mutex).                                                    *)
RelockOutcomes == {"deadlock", "throw", "reenter"}

(* The functions that call ensure_user_exists while holding db_mutex. *)
NestedLock(o) == o.name \in UpsertCallers \cup {"get_settings", "append_message", "export", "import"}

NoOp == [name |-> "none"]
NoRet == [out |-> NoJson, status |-> "none", failed |-> {}]
NoSnap == [settings |-> <<>>, user |-> <<>>, history |-> <<>>]

Snapshot(db, u) ==
    [settings |-> IF u \in DOMAIN db.settings THEN <<db.settings[u]>> ELSE <<>>,
     user |-> IF u \in DOMAIN db.users THEN <<db.users[u]>> ELSE <<>>,
     history |-> SelectHistory(db, u)]

RECURSIVE SubsetsUpTo(_, _)
SubsetsUpTo(S, n) ==
    IF n <= 0 THEN {{}}
    ELSE LET prev == SubsetsUpTo(S, n - 1)
         IN prev \cup {x \cup {p} : x \in prev, p \in S}

EnsureSteps == {"open", "users", "settings", "commit"}
UpsertSteps == {"open", "users", "settings", "commit"}

(* The storage steps a call executes, each of which may fail. *)
FaultPoints(o) ==
    CASE o.name = "ensure_user" -> {"ensure"} \X EnsureSteps
      [] o.name \in UpsertCallers -> ({"upsert.ensure"} \X EnsureSteps) \cup ({"upsert"} \X UpsertSteps)
      [] o.name \in {"get_settings", "export"} -> ({"get.ensure"} \X EnsureSteps) \cup ({"get"} \X {"open", "select"})
      [] o.name = "append_message" -> ({"append.ensure"} \X EnsureSteps) \cup ({"append"} \X {"open", "insert"})
      [] o.name = "clear_history" -> {"clear"} \X {"open", "delete"}
      [] o.name = "import" ->
            ({"import.ensure"} \X EnsureSteps)
            \cup ({"import"} \X {"open", "commit"})
            \cup (IF Contains(o.payload, "settings")
                  THEN ({"import.upsert.ensure"} \X EnsureSteps) \cup ({"import.upsert"} \X UpsertSteps)
                  ELSE {})
            \cup (IF Contains(o.payload, "chat_history")
                  THEN {"import"} \X ((IF o.replace THEN {"delete"} ELSE {}) \cup {"prepare"}
                          \cup {InsertStep[i] : i \in 1..Len(o.payload["chat_history"])})
                  ELSE {})

FaultSets(o) == SubsetsUpTo(FaultPoints(o), MaxFaults - faults)

Init ==
    /\ users = <<>>
    /\ settings = <<>>
    /\ chat = {}
    /\ seq = 0
    /\ now = 0
    /\ db_mutex = NoThread
    /\ relock \in RelockOutcomes
    /\ pc = [t \in Threads |-> "idle"]
    /\ op = [t \in Threads |-> NoOp]
    /\ ret = [t \in Threads |-> NoRet]
    /\ before = [t \in Threads |-> NoSnap]
    /\ calls = 0
    /\ faults = 0

(* A worker thread picks up a request and enters the function. *)
CallWithin(t, requests, n) ==
    /\ pc[t] \in {"idle", "done"}
    /\ calls < n
    /\ \E r \in requests : op' = [op EXCEPT ![t] = r]
    /\ pc' = [pc EXCEPT ![t] = "lock"]
    /\ ret' = [ret EXCEPT ![t] = NoRet]
    /\ before' = [before EXCEPT ![t] = NoSnap]
    /\ calls' = calls + 1
    /\ UNCHANGED <<users, settings, chat, seq, now, db_mutex, relock, faults>>

Call(t, requests) == CallWithin(t, requests, MaxCalls)

(* A thread that serves one request in the whole behaviour. *)
CallOnce(t, requests) == pc[t] = "idle" /\ Call(t, requests)

(* std::lock_guard<std::mutex> lock(db_mutex) at the top of a function *)
Lock(t) ==
    /\ pc[t] \in {"lock", "lock2"}
    /\ db_mutex = NoThread
    /\ db_mutex' = t
    /\ pc' = [pc EXCEPT ![t] = IF pc[t] = "lock" THEN "locked" ELSE "locked2"]
    /\ UNCHANGED <<users, settings, chat, seq, now, relock, op, ret, before, calls, faults>>

(* The nested lock_guard in ensure_user_exists, build blocks for ever. *)
RelockDeadlock(t) ==
    /\ pc[t] = "locked"
    /\ NestedLock(op[t])
    /\ relock = "deadlock"
    /\ pc' = [pc EXCEPT ![t] = "hung"]
    /\ UNCHANGED <<users, settings, chat, seq, now, db_mutex, relock, op, ret, before, calls, faults>>

(* The nested lock_guard in ensure_user_exists, build throws: the outer    *)
(* lock_guard unlocks while the exception unwinds to the handler.          *)
RelockThrow(t) ==
    /\ pc[t] = "locked"
    /\ NestedLock(op[t])
    /\ relock = "throw"
    /\ db_mutex' = NoThread
    /\ pc' = [pc EXCEPT ![t] = "done"]
    /\ ret' = [ret EXCEPT ![t] = [out |-> NoJson, status |-> "exception", failed |-> {}]]
    /\ UNCHANGED <<users, settings, chat, seq, now, relock, op, before, calls, faults>>

(* The body runs to its return with db_mutex held throughout. *)
CanRun(t, names) ==
    /\ pc[t] = "locked"
    /\ op[t].name \in names
    /\ NestedLock(op[t]) => relock = "reenter"

(* Write the database back, release db_mutex, return. *)
Return(t, d, status, out, f) ==
    /\ users' = d.users
    /\ settings' = d.settings
    /\ chat' = d.chat
    /\ seq' = d.seq
    /\ db_mutex' = NoThread
    /\ pc' = [pc EXCEPT ![t] = "done"]
    /\ ret' = [ret EXCEPT ![t] = [out |-> out, status |-> status, failed |-> f]]
    /\ before' = [before EXCEPT ![t] = Snapshot(DB, op[t].user)]
    /\ faults' = faults + Cardinality(f)
    /\ UNCHANGED <<now, relock, op, calls>>

Status(ok) == IF ok THEN "true" ELSE "false"

RunEnsureUser(t) ==
    /\ CanRun(t, {"ensure_user"})
    /\ \E f \in FaultSets(op[t]) :
         Return(t, EnsureUserExists(DB, op[t].user, now, f, "ensure"), "void", NoJson, f)

DoUpsert(t) ==
    \E f \in FaultSets(op[t]) :
        LET r == UpsertSettings(DB, op[t].user, PayloadOf(op[t]), now, f, "upsert", "upsert.ensure")
        IN Return(t, r.db, Status(r.ok), NoJson, f)

RunUpsertSettings(t) == CanRun(t, {"upsert_settings"}) /\ DoUpsert(t)
RunSetProfile(t) == CanRun(t, {"set_profile"}) /\ DoUpsert(t)
RunSetNotifications(t) == CanRun(t, {"set_notifications"}) /\ DoUpsert(t)
RunSetTheme(t) == CanRun(t, {"set_theme"}) /\ DoUpsert(t)
RunSetBiometric(t) == CanRun(t, {"set_biometric_lock"}) /\ DoUpsert(t)

RunAppend(t) ==
    /\ CanRun(t, {"append_message"})
    /\ \E f \in FaultSets(op[t]) :
         LET r == AppendChatMessage(DB, op[t].user, op[t].role, op[t].message, now, f)
         IN Return(t, r.db, Status(r.ok), NoJson, f)

RunClear(t) ==
    /\ CanRun(t, {"clear_history"})
    /\ \E f \in FaultSets(op[t]) :
         LET r == ClearChatHistory(DB, op[t].user, f)
         IN Return(t, r.db, Status(r.ok), NoJson, f)

RunImport(t) ==
    /\ CanRun(t, {"import"})
    /\ \E f \in FaultSets(op[t]) :
         LET r == ImportUserData(DB, op[t].user, op[t].payload, op[t].replace, now, f)
         IN Return(t, r.db, Status(r.ok), NoJson, f)

(* A JSON string built from a null column: the constructor throws or the   *)
(* process dies.                                                           *)
NullReadOutcomes == {"exception", "crash"}

ReturnRead(t, r, f, nextpc, out) ==
    /\ users' = r.db.users
    /\ settings' = r.db.settings
    /\ before' = [before EXCEPT ![t] = Snapshot(DB, op[t].user)]
    /\ faults' = faults + Cardinality(f)
    /\ db_mutex' = NoThread
    /\ IF r.undefined
       THEN \E o \in NullReadOutcomes :
              /\ pc' = IF o = "crash" THEN [x \in Threads |-> "crashed"]
                       ELSE [pc EXCEPT ![t] = "done"]
              /\ ret' = [ret EXCEPT ![t] = [out |-> NoJson, status |-> o, failed |-> f]]
       ELSE /\ pc' = [pc EXCEPT ![t] = nextpc]
            /\ ret' = [ret EXCEPT ![t] = [out |-> out, status |-> "value", failed |-> f]]
    /\ UNCHANGED <<chat, seq, now, relock, op, calls>>

RunGetSettings(t) ==
    /\ CanRun(t, {"get_settings"})
    /\ \E f \in FaultSets(op[t]) :
         LET r == GetUserSettings(DB, op[t].user, now, f)
         IN ReturnRead(t, r, f, "done", r.out)

(* export_user_data, first half: exported_at and get_user_settings *)
RunExportSettings(t) ==
    /\ CanRun(t, {"export"})
    /\ \E f \in FaultSets(op[t]) :
         LET r == GetUserSettings(DB, op[t].user, now, f)
         IN ReturnRead(t, r, f, "lock2", [settings |-> r.out, exported_at |-> now])

(* export_user_data, second half: the chat_history rows under a second     *)
(* lock_guard.  A failed open or prepare leaves the key out.               *)
RunExportHistory(t) ==
    /\ pc[t] = "locked2"
    /\ \E f \in SubsetsUpTo({"export"} \X {"open", "select"}, MaxFaults - faults) :
         /\ ret' = [ret EXCEPT ![t] =
                      [out |-> IF f = {} THEN ret[t].out @@ [chat_history |-> SelectHistory(DB, op[t].user)]
                               ELSE ret[t].out,
                       status |-> "value",
                       failed |-> ret[t].failed \cup f]]
         /\ faults' = faults + Cardinality(f)
    /\ db_mutex' = NoThread
    /\ pc' = [pc EXCEPT ![t] = "done"]
    /\ UNCHANGED <<users, settings, chat, seq, now, relock, op, before, calls>>

(* The wall clock moves on. *)
Tick ==
    /\ now < MaxClock
    /\ now' = now + 1
    /\ UNCHANGED <<users, settings, chat, seq, db_mutex, relock, pc, op, ret, before, calls, faults>>

-----------------------------------------------------------------------------
(* Requests *)

TextValues(k) ==
    CASE k = "theme_mode" -> {"", "Dark", "Light"}
      [] k = "language" -> {"", "French"}
      [] k = "app_version" -> {"", "2.0.0"}
      [] k = "name" -> {"", "Ann"}
      [] k = "email" -> {"", "ann@example.com"}
      [] k = "avatar_url" -> {"", "a.png"}

(* JSON objects with one key *)
OneKey(keys) ==
    {k :> v : k \in keys \cap BoolKeys, v \in BOOLEAN}
    \cup UNION {{k :> v : v \in TextValues(k)} : k \in keys \cap (TextKeys \cup ProfileKeys)}

(* JSON objects with at most n of the keys *)
RECURSIVE Payloads(_, _)
Payloads(keys, n) ==
    IF n <= 0 THEN {<<>>}
    ELSE LET prev == Payloads(keys, n - 1)
         IN prev \cup UNION {{j @@ o : o \in {x \in OneKey(keys) : (DOMAIN x) \cap (DOMAIN j) = {}}} : j \in prev}

Roles == {"user", "bot"}
Messages == {"hi", "there", "bye"}

(* One chat_history entry of an import payload: any of its keys may be absent. *)
Entries == {<<>>, [role |-> "bot", message |-> "hi"], [created_at |-> 0, message |-> "bye"]}

RECURSIVE SeqsUpTo(_, _)
SeqsUpTo(S, n) ==
    IF n <= 0 THEN {<<>>}
    ELSE LET prev == SeqsUpTo(S, n - 1)
         IN prev \cup {Append(q, x) : q \in prev, x \in S}

ReqEnsure(U) == {[name |-> "ensure_user", user |-> u] : u \in U}
ReqGet(U) == {[name |-> "get_settings", user |-> u] : u \in U}
ReqUpsert(U, P) == {[j |-> j, name |-> "upsert_settings", user |-> u] : u \in U, j \in P}
ReqProfile(U, P) == {[j |-> j, name |-> "set_profile", user |-> u] : u \in U, j \in P}
ReqNotifications(U, P) == {[j |-> j, name |-> "set_notifications", user |-> u] : u \in U, j \in P}
ReqTheme(U, M) == {[name |-> "set_theme", mode |-> m, user |-> u] : u \in U, m \in M}
ReqBiometric(U) == {[name |-> "set_biometric_lock", enabled |-> b, user |-> u] : u \in U, b \in BOOLEAN}
ReqAppend(U, R, M) == {[name |-> "append_message", role |-> r, message |-> m, user |-> u] : u \in U, r \in R, m \in M}
ReqClear(U) == {[name |-> "clear_history", user |-> u] : u \in U}
ReqExport(U) == {[name |-> "export", user |-> u] : u \in U}
ReqImport(U, P) == {[name |-> "import", payload |-> p, replace |-> b, user |-> u] : u \in U, p \in P, b \in BOOLEAN}

-----------------------------------------------------------------------------
(* The server: worker threads serving requests of every kind for two users *)

ServerPayloads == {[dark_mode |-> TRUE], [language |-> "French"], [notifications_enabled |-> FALSE]}

ServerImports ==
    {[chat_history |-> <<[role |-> "bot", message |-> "hi"]>>],
     [settings |-> [language |-> "French"], chat_history |-> <<[message |-> "bye"]>>]}

ServerRequests ==
    ReqGet(Users) \cup ReqUpsert(Users, ServerPayloads) \cup ReqTheme(Users, {"Dark"})
    \cup ReqAppend(Users, {"user"}, {"hi"}) \cup ReqClear(Users) \cup ReqExport(Users)
    \cup ReqImport(Users, ServerImports)

Next ==
    \/ \E t \in Threads : Call(t, ServerRequests)
    \/ \E t \in Threads : Lock(t)
    \/ \E t \in Threads : RelockDeadlock(t)
    \/ \E t \in Threads : RelockThrow(t)
    \/ \E t \in Threads : RunGetSettings(t)
    \/ \E t \in Threads : RunUpsertSettings(t)
    \/ \E t \in Threads : RunSetTheme(t)
    \/ \E t \in Threads : RunAppend(t)
    \/ \E t \in Threads : RunClear(t)
    \/ \E t \in Threads : RunExportSettings(t)
    \/ \E t \in Threads : RunExportHistory(t)
    \/ \E t \in Threads : RunImport(t)
    \/ Tick

Spec == Init /\ [][Next]_vars

-----------------------------------------------------------------------------
(* The merge of one request into a stored record.  The record is one the    *)
(* server can hold when the request arrives: no rows yet, the provisioned  *)
(* defaults, or a record whose every field an earlier POST /settings        *)
(* changed.  Storage does not fail.                                        *)

ChangedUser == [name |-> "Ann", email |-> "ann@example.com", avatar_url |-> "a.png", created_at |-> 0]

ChangedSettings ==
    [theme_mode |-> "Dark", dark_mode |-> 1, notifications_enabled |-> 0,
     chat_notifications |-> 0, update_notifications |-> 0, reminder_notifications |-> 1,
     language |-> "French", biometric_lock |-> 1, app_version |-> "2.0.0", updated_at |-> 0]

StoredRecords ==
    {[users |-> <<>>, settings |-> <<>>],
     [users |-> ("u1" :> DefaultUser(0)), settings |-> ("u1" :> DefaultSettings(0))],
     [users |-> ("u1" :> ChangedUser), settings |-> ("u1" :> ChangedSettings)]}

ThemeModes == {"System", "Light", "Dark", "Blue", ""}

MergeRequests ==
    ReqUpsert({"u1"}, Payloads(BoolKeys \cup TextKeys \cup ProfileKeys, MaxKeys))
    \cup ReqTheme({"u1"}, ThemeModes)

InitMerge ==
    /\ \E r \in StoredRecords : users = r.users /\ settings = r.settings
    /\ chat = {}
    /\ seq = 0
    /\ now = 0
    /\ db_mutex = NoThread
    /\ relock \in RelockOutcomes
    /\ pc = [t \in Threads |-> "idle"]
    /\ op = [t \in Threads |-> NoOp]
    /\ ret = [t \in Threads |-> NoRet]
    /\ before = [t \in Threads |-> NoSnap]
    /\ calls = 0
    /\ faults = MaxFaults

NextMerge ==
    \/ CallOnce("t1", MergeRequests)
    \/ Lock("t1")
    \/ RelockDeadlock("t1")
    \/ RelockThrow("t1")
    \/ RunUpsertSettings("t1")
    \/ RunSetTheme("t1")
    \/ Tick

SpecMerge == InitMerge /\ [][NextMerge]_vars

-----------------------------------------------------------------------------
(* Provisioning: ensure_user_exists called on its own and through          *)
(* upsert_settings, with storage steps that may fail.                      *)

ProvisionPayloads == {[language |-> "French"], [name |-> "Ann"], [dark_mode |-> TRUE]}

ProvisionRequests == ReqEnsure(Users) \cup ReqUpsert({"u1"}, ProvisionPayloads)

NextProvision ==
    \/ Call("t1", ProvisionRequests)
    \/ Lock("t1")
    \/ RelockDeadlock("t1")
    \/ RelockThrow("t1")
    \/ RunEnsureUser("t1")
    \/ RunUpsertSettings("t1")
    \/ Tick

SpecProvision == Init /\ [][NextProvision]_vars

-----------------------------------------------------------------------------
(* Import: one import_user_data call, and one export_user_data call on a   *)
(* second thread, on a store that is empty or holds the rows that          *)
(* append_chat_message calls for two users left.  Storage steps may fail.  *)

HistoryStores ==
    {[users |-> <<>>, settings |-> <<>>, chat |-> {}, seq |-> 0],
     [users |-> [u \in Users |-> DefaultUser(0)],
      settings |-> [u \in Users |-> DefaultSettings(0)],
      chat |-> {[created_at |-> 0, user_id |-> "u1", id |-> 1, role |-> "user", message |-> "hi"],
                [created_at |-> 0, user_id |-> "u2", id |-> 2, role |-> "user", message |-> "there"],
                [created_at |-> 0, user_id |-> "u1", id |-> 3, role |-> "bot", message |-> "there"]},
      seq |-> 3]}

ImportPayloads ==
    LET histories == {[chat_history |-> h] : h \in SeqsUpTo(Entries, MaxEntries)} \cup {<<>>}
        merges == {[settings |-> [language |-> "French"]], <<>>}
    IN {h @@ m : h \in histories, m \in merges}

ImportRequests == ReqImport({"u1"}, ImportPayloads)

ExportRequests == ReqExport({"u1"})

InitImport ==
    /\ \E d \in HistoryStores :
          users = d.users /\ settings = d.settings /\ chat = d.chat /\ seq = d.seq
    /\ now = 0
    /\ db_mutex = NoThread
    /\ relock \in RelockOutcomes
    /\ pc = [t \in Threads |-> "idle"]
    /\ op = [t \in Threads |-> NoOp]
    /\ ret = [t \in Threads |-> NoRet]
    /\ before = [t \in Threads |-> NoSnap]
    /\ calls = 0
    /\ faults = 0

NextImport ==
    \/ CallOnce("t1", ImportRequests)
    \/ CallOnce("t2", ExportRequests)
    \/ \E t \in Threads : Lock(t)
    \/ \E t \in Threads : RelockDeadlock(t)
    \/ \E t \in Threads : RelockThrow(t)
    \/ RunImport("t1")
    \/ RunExportSettings("t2")
    \/ RunExportHistory("t2")
    \/ Tick

SpecImport == InitImport /\ [][NextImport]_vars

-----------------------------------------------------------------------------
(* History: one client appends messages for a user and exports, while a    *)
(* second thread appends one message for another user.  Storage does not   *)
(* fail.                                                                   *)

HistoryRequests ==
    ReqAppend({"u1"}, {"user"}, Messages) \cup ReqAppend({"u1"}, {"bot"}, {"hi"})
    \cup ReqExport({"u1"})

OtherUserRequests == ReqAppend({"u2"}, {"user"}, {"hi"})

NextHistory ==
    \/ CallWithin("t1", HistoryRequests, MaxAppends + 2)
    \/ pc["t2"] = "idle" /\ CallWithin("t2", OtherUserRequests, MaxAppends + 2)
    \/ \E t \in Threads : Lock(t)
    \/ \E t \in Threads : RelockDeadlock(t)
    \/ \E t \in Threads : RelockThrow(t)
    \/ \E t \in Threads : RunAppend(t)
    \/ RunExportSettings("t1")
    \/ RunExportHistory("t1")
    \/ Tick

InitHistory ==
    /\ users = <<>>
    /\ settings = <<>>
    /\ chat = {}
    /\ seq = 0
    /\ now = 0
    /\ db_mutex = NoThread
    /\ relock \in RelockOutcomes
    /\ pc = [t \in Threads |-> "idle"]
    /\ op = [t \in Threads |-> NoOp]
    /\ ret = [t \in Threads |-> NoRet]
    /\ before = [t \in Threads |-> NoSnap]
    /\ calls = 0
    /\ faults = MaxFaults

SpecHistory == InitHistory /\ [][NextHistory]_vars

-----------------------------------------------------------------------------
(* Deletion: one client clears, imports, appends and upserts, two calls in *)
(* a row, on a store that is empty or holds the rows of two users.         *)
(* Storage steps may fail.                                                 *)

ClearImports ==
    {[chat_history |-> <<[role |-> "bot", message |-> "hi"]>>],
     [settings |-> [language |-> "French"]]}

ClearRequests ==
    ReqClear(Users) \cup ReqImport({"u1"}, ClearImports)
    \cup ReqAppend({"u2"}, {"user"}, {"bye"}) \cup ReqUpsert({"u1"}, {[dark_mode |-> TRUE]})

NextClear ==
    \/ Call("t1", ClearRequests)
    \/ Lock("t1")
    \/ RelockDeadlock("t1")
    \/ RelockThrow("t1")
    \/ RunClear("t1")
    \/ RunImport("t1")
    \/ RunAppend("t1")
    \/ RunUpsertSettings("t1")
    \/ Tick

SpecClear == InitImport /\ [][NextClear]_vars

-----------------------------------------------------------------------------
(* Profile: one POST /profile request merged into a stored record.         *)
(* Storage does not fail.                                                  *)

ProfileRequests == ReqProfile({"u1"}, Payloads(ProfileKeys \cup {"language"}, MaxKeys))

NextProfile ==
    \/ CallOnce("t1", ProfileRequests)
    \/ Lock("t1")
    \/ RelockDeadlock("t1")
    \/ RelockThrow("t1")
    \/ RunSetProfile("t1")
    \/ Tick

SpecProfile == InitMerge /\ [][NextProfile]_vars

-----------------------------------------------------------------------------
(* Ids: one client clears, appends and imports for a user, two calls in a  *)
(* row, while a second thread appends for the same user, on a store that   *)
(* is empty or holds the rows of two users.  Storage steps may fail.       *)

IdImports == {[chat_history |-> <<[role |-> "bot", message |-> "hi"], [message |-> "bye"]>>]}

IdRequests ==
    ReqClear({"u1"}) \cup ReqAppend({"u1"}, {"user"}, {"hi"}) \cup ReqImport({"u1"}, IdImports)

ConcurrentAppends == ReqAppend({"u1"}, {"bot"}, {"there"})

NextIds ==
    \/ Call("t1", IdRequests)
    \/ CallOnce("t2", ConcurrentAppends)
    \/ \E t \in Threads : Lock(t)
    \/ \E t \in Threads : RelockDeadlock(t)
    \/ \E t \in Threads : RelockThrow(t)
    \/ \E t \in Threads : RunAppend(t)
    \/ RunClear("t1")
    \/ RunImport("t1")
    \/ Tick

SpecIds == InitImport /\ [][NextIds]_vars

-----------------------------------------------------------------------------
(* Isolation: one request of each kind for u1 on one thread and one        *)
(* request for u2 on another, in any interleaving, on a store that is      *)
(* empty or holds the rows of both users.  Storage steps may fail.         *)

RequestsOfU1 ==
    ReqGet({"u1"}) \cup ReqUpsert({"u1"}, ServerPayloads) \cup ReqProfile({"u1"}, {[name |-> "Ann"]})
    \cup ReqTheme({"u1"}, {"Dark"}) \cup ReqBiometric({"u1"})
    \cup ReqAppend({"u1"}, {"user"}, {"hi"}) \cup ReqClear({"u1"}) \cup ReqExport({"u1"})
    \cup ReqImport({"u1"}, ServerImports)

RequestsOfU2 ==
    ReqUpsert({"u2"}, {[language |-> "French"]}) \cup ReqAppend({"u2"}, {"bot"}, {"bye"})
    \cup ReqClear({"u2"}) \cup ReqExport({"u2"})

NextIsolation ==
    \/ CallOnce("t1", RequestsOfU1)
    \/ CallOnce("t2", RequestsOfU2)
    \/ \E t \in Threads : Lock(t)
    \/ \E t \in Threads : RelockDeadlock(t)
    \/ \E t \in Threads : RelockThrow(t)
    \/ \E t \in Threads : RunGetSettings(t)
    \/ \E t \in Threads : RunUpsertSettings(t)
    \/ \E t \in Threads : RunSetProfile(t)
    \/ \E t \in Threads : RunSetTheme(t)
    \/ \E t \in Threads : RunSetBiometric(t)
    \/ \E t \in Threads : RunAppend(t)
    \/ \E t \in Threads : RunClear(t)
    \/ \E t \in Threads : RunExportSettings(t)
    \/ \E t \in Threads : RunExportHistory(t)
    \/ \E t \in Threads : RunImport(t)
    \/ Tick

SpecIsolation == InitImport /\ [][NextIsolation]_vars

-----------------------------------------------------------------------------
(* Claims *)

(* The value a column holds for a JSON value supplied for it. *)
StoredValue(k, v) == IF k \in BoolKeys THEN (IF v THEN 1 ELSE 0) ELSE v

(* Thread t's call of one of `names` returns true in this step, no storage  *)
(* step having failed.                                                     *)
Returns(t, names) ==
    /\ pc[t] = "locked"
    /\ op[t].name \in names
    /\ pc'[t] = "done"
    /\ ret'[t].status = "true"
    /\ ret'[t].failed = {}

(* Thread t has returned true from a call of one of `names`. *)
Returned(t, names) ==
    /\ pc[t] = "done"
    /\ op[t].name \in names
    /\ ret[t].status = "true"
    /\ ret[t].failed = {}

(* C1: partial-update preservation.  After upsert_settings(user_id, j) on   *)
(* a stored Settings record, every recognized field absent from j has the  *)
(* value it had before and every field present in j has the supplied one.  *)
C1_PartialUpdate ==
    [][\A t \in Threads :
         (Returns(t, {"upsert_settings"}) /\ op[t].user \in DOMAIN settings) =>
            \A k \in BoolKeys \cup TextKeys :
               settings'[op[t].user][k] =
                  IF Contains(op[t].j, k) THEN StoredValue(k, op[t].j[k])
                  ELSE settings[op[t].user][k]]_vars

(* C2: explicit false is distinct from absent.  upsert_settings with a     *)
(* boolean field present and false stores false whatever was stored; a     *)
(* boolean field not in j keeps its prior value.                           *)
C2_ExplicitFalse ==
    [][\A t \in Threads :
         Returns(t, {"upsert_settings"}) =>
            \A k \in BoolKeys :
               /\ (Contains(op[t].j, k) /\ op[t].j[k] = FALSE) => settings'[op[t].user][k] = 0
               /\ (~Contains(op[t].j, k) /\ op[t].user \in DOMAIN settings) =>
                     settings'[op[t].user][k] = settings[op[t].user][k]]_vars

(* A true value was stored and an explicit false replaced it. *)
C2_Witness ==
    \E t \in Threads : \E k \in BoolKeys :
        /\ Returned(t, {"upsert_settings"})
        /\ Contains(op[t].j, k) /\ op[t].j[k] = FALSE
        /\ before[t].settings # <<>> /\ before[t].settings[1][k] = 1
        /\ settings[op[t].user][k] = 0

(* C3: the empty string is distinct from omission.  upsert_settings with a *)
(* text field present and equal to "" stores "" in that field.             *)
C3_EmptyString ==
    [][\A t \in Threads :
         Returns(t, {"upsert_settings"}) =>
            /\ \A k \in TextKeys :
                  (Contains(op[t].j, k) /\ op[t].j[k] = "") => settings'[op[t].user][k] = ""
            /\ \A k \in ProfileKeys :
                  (Contains(op[t].j, k) /\ op[t].j[k] = "") => users'[op[t].user][k] = ""]_vars

(* C10: theme derivation.  set_theme(user_id, mode) leaves theme_mode =    *)
(* mode and dark_mode true exactly when mode is "Dark".                    *)
C10_ThemeDerivation ==
    [][\A t \in Threads :
         Returns(t, {"set_theme"}) =>
            /\ settings'[op[t].user].theme_mode = op[t].mode
            /\ settings'[op[t].user].dark_mode = (IF op[t].mode = "Dark" THEN 1 ELSE 0)]_vars

(* C5: concurrent writers to the same user.  Two upsert_settings calls for *)
(* one user with disjoint field sets both complete, and once both have     *)
(* the stored record holds both callers' values.                           *)
C5_NoLostUpdate ==
    \A a \in Threads : \A b \in Threads \ {a} :
        (/\ op[a].name = "upsert_settings" /\ op[b].name = "upsert_settings"
         /\ op[a].user = op[b].user
         /\ (DOMAIN op[a].j) \cap (DOMAIN op[b].j) = {}
         /\ ret[a].failed = {} /\ ret[b].failed = {})
        => /\ pc[a] # "hung"
           /\ ret[a].status # "exception"
           /\ (pc[a] = "done" /\ pc[b] = "done") =>
                 \A k \in DOMAIN op[a].j : settings[op[a].user][k] = StoredValue(k, op[a].j[k])

(* Thread t's call of ensure_user returns in this step. *)
EnsureReturns(t) ==
    /\ pc[t] = "locked"
    /\ op[t].name = "ensure_user"
    /\ pc'[t] = "done"

(* C8: idempotent provisioning.  A call of ensure_user(user_id) that       *)
(* follows a call of it (both rows are there) leaves users, settings and   *)
(* chat_history as they are, and the state any call leaves is one a        *)
(* further call, at any later time, does not change.                       *)
C8_Idempotent ==
    [][\A t \in Threads :
         (EnsureReturns(t) /\ ret'[t].failed = {}) =>
            /\ op[t].user \in DOMAIN users' /\ op[t].user \in DOMAIN settings'
            /\ (op[t].user \in DOMAIN users /\ op[t].user \in DOMAIN settings) =>
                  (users' = users /\ settings' = settings /\ chat' = chat /\ seq' = seq)
            /\ \A later \in now..MaxClock :
                  EnsureUserExists(DB', op[t].user, later, {}, "ensure") = DB']_vars

(* ensure_user was called again, a second later, on the rows an earlier    *)
(* call made; they are as they were.                                       *)
C8_Witness ==
    \E t \in Threads :
        /\ pc[t] = "done" /\ op[t].name = "ensure_user" /\ ret[t].failed = {}
        /\ before[t].user = <<DefaultUser(0)>> /\ before[t].settings = <<DefaultSettings(0)>>
        /\ now > 0
        /\ users[op[t].user] = DefaultUser(0) /\ settings[op[t].user] = DefaultSettings(0)

(* C9: provisioning never overwrites.  ensure_user leaves every field of a *)
(* User or Settings row that exists unchanged, and inserts the missing row *)
(* of its user, with the defaults, and no other row.                       *)
C9_NeverOverwrites ==
    [][\A t \in Threads :
         EnsureReturns(t) =>
            /\ \A u \in DOMAIN users : u \in DOMAIN users' /\ users'[u] = users[u]
            /\ \A u \in DOMAIN settings : u \in DOMAIN settings' /\ settings'[u] = settings[u]
            /\ DOMAIN users' \subseteq (DOMAIN users) \cup {op[t].user}
            /\ DOMAIN settings' \subseteq (DOMAIN settings) \cup {op[t].user}
            /\ ret'[t].failed = {} =>
                  /\ op[t].user \notin DOMAIN users => users'[op[t].user] = DefaultUser(now)
                  /\ op[t].user \notin DOMAIN settings =>
                        settings'[op[t].user] = DefaultSettings(now)]_vars

(* A Settings row with a non-default language and no User row: ensure_user *)
(* inserted the default User row and left the Settings row alone.          *)
C9_Witness ==
    \E t \in Threads :
        /\ pc[t] = "done" /\ op[t].name = "ensure_user" /\ ret[t].failed = {}
        /\ before[t].user = <<>>
        /\ before[t].settings # <<>> /\ before[t].settings[1].language = "French"
        /\ op[t].user \in DOMAIN users /\ users[op[t].user].name = "User Name"
        /\ settings[op[t].user] = before[t].settings[1]

(* C7: history ordering round-trip.  Each append_message puts its message *)
(* after every message the user has, under an id above every id in the     *)
(* table, and changes no other row; export returns the user's messages in  *)
(* that order.  So a sequence of appends followed by export returns the    *)
(* messages in the order they were appended, their ids strictly increasing.*)
C7_HistoryOrder ==
    [][\A t \in Threads :
         /\ Returns(t, {"append_message"}) =>
               /\ SelectHistory(DB', op[t].user) =
                     Append(SelectHistory(DB, op[t].user),
                            [created_at |-> now, role |-> op[t].role, message |-> op[t].message])
               /\ chat \subseteq chat'
               /\ Cardinality(chat' \ chat) = 1
               /\ \A r \in chat' \ chat : \A q \in chat : q.id < r.id
         /\ (pc[t] = "locked2" /\ pc'[t] = "done" /\ ret'[t].failed = {}) =>
               /\ Contains(ret'[t].out, "chat_history")
               /\ ret'[t].out["chat_history"] = SelectHistory(DB, op[t].user)
               /\ LET rows == OrderById(RowsOf(chat, op[t].user))
                  IN \A i \in 1..Len(rows) : \A j \in 1..Len(rows) :
                        i < j => rows[i].id < rows[j].id]_vars

(* "hi", "there", "bye" were appended for u1, a message for u2 in between, *)
(* and export returned the three in that order.                            *)
C7_Witness ==
    /\ pc["t1"] = "done" /\ op["t1"].name = "export" /\ ret["t1"].failed = {}
    /\ Contains(ret["t1"].out, "chat_history")
    /\ LET h == ret["t1"].out["chat_history"]
       IN /\ Len(h) = 3
          /\ h[1].message = "hi" /\ h[2].message = "there" /\ h[3].message = "bye"
    /\ {r.id : r \in RowsOf(chat, "u1")} = {1, 3, 4}
    /\ {r.id : r \in RowsOf(chat, "u2")} = {2}

(* C4: import atomicity.  When a storage step fails in an import whose     *)
(* payload has both settings and chat_history, the stored state afterwards *)
(* holds neither the settings change nor any insert nor the deletion.      *)
C4_ImportAtomic ==
    [][\A t \in Threads :
         (/\ pc[t] = "locked" /\ op[t].name = "import" /\ pc'[t] = "done"
          /\ Contains(op[t].payload, "settings") /\ Contains(op[t].payload, "chat_history")
          /\ ret'[t].failed # {})
         => /\ op[t].user \in DOMAIN settings => settings'[op[t].user] = settings[op[t].user]
            /\ op[t].user \in DOMAIN users => users'[op[t].user] = users[op[t].user]
            /\ SelectHistory(DB', op[t].user) = SelectHistory(DB, op[t].user)]_vars

(* A chat_history entry as the message import stores for it. *)
ImportedEntry(m, t) ==
    [created_at |-> Value(m, "created_at", t), role |-> Value(m, "role", "user"),
     message |-> Value(m, "message", "")]

Imported(entries, t) == [i \in 1..Len(entries) |-> ImportedEntry(entries[i], t)]

(* C6: replace-import versus merge-import.  With existing history H and    *)
(* payload chat_history P, import leaves the history that export selects   *)
(* exactly P when replace is true and H followed by P when it is false.    *)
C6_ReplaceOrMerge ==
    [][\A t \in Threads :
         (Returns(t, {"import"}) /\ Contains(op[t].payload, "chat_history")) =>
            SelectHistory(DB', op[t].user) =
               IF op[t].replace THEN Imported(op[t].payload["chat_history"], now)
               ELSE SelectHistory(DB, op[t].user) \o Imported(op[t].payload["chat_history"], now)]_vars

(* A replace-import of two entries over a history of two messages, and an  *)
(* export that returned exactly the two imported ones.                     *)
C6_Witness ==
    /\ Returned("t1", {"import"})
    /\ op["t1"].replace
    /\ Contains(op["t1"].payload, "chat_history")
    /\ Len(op["t1"].payload["chat_history"]) = 2
    /\ Len(before["t1"].history) = 2
    /\ pc["t2"] = "done" /\ ret["t2"].status = "value"
    /\ Contains(ret["t2"].out, "chat_history")
    /\ ret["t2"].out["chat_history"] = Imported(op["t1"].payload["chat_history"], now)

(* The theme modes the settings table names (System|Light|Dark). *)
ValidThemeModes == {"System", "Light", "Dark"}

(* C11: theme validation.  A call of upsert_settings or set_theme whose    *)
(* theme_mode is outside {System, Light, Dark} does not return ok and      *)
(* leaves the stored users and settings rows as they were.                 *)
C11_ThemeValidation ==
    [][\A t \in Threads :
         (/\ pc[t] = "locked" /\ pc'[t] = "done"
          /\ op[t].name \in {"upsert_settings", "set_theme"}
          /\ Contains(PayloadOf(op[t]), "theme_mode")
          /\ PayloadOf(op[t])["theme_mode"] \notin ValidThemeModes)
         => /\ ret'[t].status # "true"
            /\ users' = users
            /\ settings' = settings]_vars

(* C12: storage failure is rolled back and reported.  A call of            *)
(* upsert_settings, append_message, clear_history or import in which a     *)
(* storage step fails does not return ok and leaves the store as it was.   *)
C12_FailureReported ==
    [][\A t \in Threads :
         (/\ pc[t] = "locked" /\ pc'[t] = "done"
          /\ op[t].name \in {"upsert_settings", "append_message", "clear_history", "import"}
          /\ ret'[t].failed # {})
         => /\ ret'[t].status # "true"
            /\ users' = users
            /\ settings' = settings
            /\ chat' = chat]_vars

(* The values payload j leaves in the rows of a user provisioned at t. *)
MergedUser(j, t) ==
    [k \in DOMAIN DefaultUser(t) |->
        IF k \in ProfileKeys /\ Contains(j, k) THEN j[k] ELSE DefaultUser(t)[k]]

MergedSettings(j, t) ==
    [k \in SettingsCols |->
        IF Contains(j, k) THEN StoredValue(k, j[k]) ELSE DefaultSettings(t)[k]]

(* C13: provisioning and the write of the same request are one atomic     *)
(* unit.  upsert_settings for a user with no rows leaves either no row of  *)
(* the user or both rows with the request's values merged in, also when a  *)
(* storage step fails.                                                     *)
C13_ProvisionWithWrite ==
    [][\A t \in Threads :
         (/\ pc[t] = "locked" /\ pc'[t] = "done"
          /\ op[t].name = "upsert_settings"
          /\ op[t].user \notin DOMAIN users
          /\ op[t].user \notin DOMAIN settings)
         => \/ op[t].user \notin DOMAIN users' /\ op[t].user \notin DOMAIN settings'
            \/ /\ op[t].user \in DOMAIN users' /\ op[t].user \in DOMAIN settings'
               /\ users'[op[t].user] = MergedUser(op[t].j, now)
               /\ settings'[op[t].user] = MergedSettings(op[t].j, now)]_vars

(* C14: export reads one committed state.  The settings and the            *)
(* chat_history one export call returns belong to one state of the store:  *)
(* the one its first read saw (the history has not changed since) or the   *)
(* one its second read sees (the settings it returned are still stored).   *)
(* With one import as the only writer these are the states there are to    *)
(* agree with: the import commits its settings merge before its inserts.   *)
C14_ExportOneState ==
    [][\A t \in Threads :
         (/\ pc[t] = "locked2" /\ pc'[t] = "done"
          /\ op[t].name = "export"
          /\ ret'[t].failed = {})
         => \/ ret'[t].out["chat_history"] = before[t].history
            \/ ret'[t].out["settings"] = SelectSettings(DB, op[t].user)]_vars

(* C15: one-to-one User/Settings.  In every state of the store a settings  *)
(* row exists for a user_id exactly when a users row exists for it.        *)
C15_OneToOne == DOMAIN settings = DOMAIN users

(* Thread t's call returns in this step and is one that deletes the        *)
(* chat_history rows of its user.                                          *)
Deletes(t) ==
    /\ pc[t] = "locked" /\ pc'[t] = "done"
    /\ \/ op[t].name = "clear_history"
       \/ op[t].name = "import" /\ op[t].replace /\ Contains(op[t].payload, "chat_history")

(* C16: no deletion except history.  No step removes a users or settings   *)
(* row, and chat_history rows are removed only by a clear_history or a     *)
(* replace-import returning, and then only rows of that call's user.       *)
C16_NoDeletion ==
    [][/\ DOMAIN users \subseteq DOMAIN users'
       /\ DOMAIN settings \subseteq DOMAIN settings'
       /\ chat \ chat' # {} =>
             \E t \in Threads :
                 Deletes(t) /\ \A r \in chat \ chat' : r.user_id = op[t].user]_vars

(* A replace-import removed the two messages of u1 and left the message of *)
(* u2 and the rows of both users.                                          *)
C16_Witness ==
    /\ Returned("t1", {"import"})
    /\ op["t1"].replace
    /\ Len(before["t1"].history) = 2
    /\ \A r \in RowsOf(chat, "u1") : r.id > 3
    /\ Cardinality(RowsOf(chat, "u2")) = 1
    /\ DOMAIN users = Users /\ DOMAIN settings = Users

(* C19: clear_history(user_id) returns ok, leaves no chat_history row of   *)
(* user_id, also when there was none, and leaves every users row, every    *)
(* settings row and every other user's chat_history rows as they were.     *)
C19_ClearHistory ==
    [][\A t \in Threads :
         (/\ pc[t] = "locked" /\ pc'[t] = "done"
          /\ op[t].name = "clear_history"
          /\ ret'[t].failed = {})
         => /\ ret'[t].status = "true"
            /\ RowsOf(chat', op[t].user) = {}
            /\ chat' = chat \ RowsOf(chat, op[t].user)
            /\ users' = users
            /\ settings' = settings]_vars

(* clear_history removed the message of u2 and left the two of u1; a       *)
(* second call, with nothing to remove, returned ok as well.               *)
C19_Witness ==
    /\ Returned("t1", {"clear_history"})
    /\ op["t1"].user = "u2"
    /\ calls = 2
    /\ before["t1"].history = <<>>
    /\ RowsOf(chat, "u2") = {}
    /\ Cardinality(RowsOf(chat, "u1")) = 2
    /\ DOMAIN users = Users /\ DOMAIN settings = Users

(* C17: updated_at always refreshed.  Every upsert_settings call that      *)
(* returns ok leaves updated_at at the current timestamp, also with an     *)
(* empty payload; and whenever a step creates or changes a settings row,   *)
(* the row's updated_at is the timestamp of that step.                     *)
C17_UpdatedAt ==
    [][/\ \A t \in Threads :
            Returns(t, {"upsert_settings"}) => settings'[op[t].user].updated_at = now
       /\ \A u \in DOMAIN settings' :
            (u \notin DOMAIN settings \/ settings'[u] # settings[u]) =>
                settings'[u].updated_at = now]_vars

(* An upsert_settings with an empty payload, a second after the row was    *)
(* written: no field changed but updated_at.                               *)
C17_Witness ==
    \E t \in Threads :
        /\ Returned(t, {"upsert_settings"})
        /\ op[t].j = <<>>
        /\ before[t].settings # <<>> /\ before[t].settings[1].updated_at = 0
        /\ now = 1
        /\ settings[op[t].user] = [before[t].settings[1] EXCEPT !.updated_at = 1]

(* C18: a generic merge does not re-derive dark_mode.  upsert_settings     *)
(* with both theme_mode and dark_mode in its payload stores both values    *)
(* as supplied, also when they disagree.                                   *)
C18_NoRederive ==
    [][\A t \in Threads :
         (/\ Returns(t, {"upsert_settings"})
          /\ Contains(op[t].j, "theme_mode") /\ Contains(op[t].j, "dark_mode"))
         => /\ settings'[op[t].user].theme_mode = op[t].j["theme_mode"]
            /\ settings'[op[t].user].dark_mode = StoredValue("dark_mode", op[t].j["dark_mode"])]_vars

(* C20: set_profile overwrites exactly the provided ones of name, email    *)
(* and avatar_url, preserves the omitted ones, and changes no other stored *)
(* field of a user who has rows: created_at and every settings field keep  *)
(* their values.                                                           *)
C20_ProfileFrame ==
    [][\A t \in Threads :
         (/\ Returns(t, {"set_profile"})
          /\ op[t].user \in DOMAIN users /\ op[t].user \in DOMAIN settings)
         => /\ \A k \in ProfileKeys :
                  users'[op[t].user][k] =
                     IF Contains(op[t].j, k) THEN op[t].j[k] ELSE users[op[t].user][k]
            /\ users'[op[t].user].created_at = users[op[t].user].created_at
            /\ settings'[op[t].user] = settings[op[t].user]
            /\ DOMAIN users' = DOMAIN users]_vars

(* C21: chat_history ids are monotonic in commit order.  Every row a step  *)
(* commits has an id above the id of every row committed before it, the    *)
(* deleted ones included (seq is the largest id ever committed), and the   *)
(* rows one step commits have distinct ids.                                *)
C21_MonotonicIds ==
    [][/\ \A r \in chat' \ chat :
            /\ r.id > seq
            /\ \A q \in chat : q.id < r.id
            /\ \A q \in chat' \ chat : q.id = r.id => q = r
       /\ \A r \in chat' : r.id <= seq'
       /\ seq' >= seq]_vars

(* clear_history deleted the messages 1 and 3 of u1; the two messages an   *)
(* import then inserted have the ids 4 and 5, above the message 2 of u2    *)
(* and above the deleted ones.                                             *)
C21_Witness ==
    /\ Returned("t1", {"import"})
    /\ ~op["t1"].replace
    /\ before["t1"].history = <<>>
    /\ {r.id : r \in RowsOf(chat, "u1")} = {4, 5}
    /\ {r.id : r \in RowsOf(chat, "u2")} = {2}
    /\ pc["t2"] = "idle"

(* C22: every operation returns.  No thread that holds db_mutex locks it   *)
(* again, so no call is ever blocked for ever on the mutex it holds, and   *)
(* none ends with the exception of a refused second lock.                  *)
C22_EveryCallReturns ==
    \A t \in Threads :
        /\ pc[t] # "hung"
        /\ ~(pc[t] = "done" /\ NestedLock(op[t]) /\ ret[t].status = "exception" /\ ret[t].failed = {}
             /\ relock = "throw")

RowsOfUser(db, v) ==
    [users |-> IF v \in DOMAIN db.users THEN <<db.users[v]>> ELSE <<>>,
     settings |-> IF v \in DOMAIN db.settings THEN <<db.settings[v]>> ELSE <<>>,
     chat |-> RowsOf(db.chat, v)]

(* C24: cross-user isolation.  A step that changes the users row, the      *)
(* settings row or the chat_history rows of a user v is a step of a call   *)
(* made with user_id v: no call changes a row of another user, whatever    *)
(* the other thread does in between.                                       *)
C24_Isolation ==
    [][\A v \in Users :
         RowsOfUser(DB', v) # RowsOfUser(DB, v) =>
            \E t \in Threads :
                /\ pc[t] \in {"locked", "locked2"} /\ pc'[t] # pc[t]
                /\ op[t].user = v]_vars

(* clear_history returned for u1, which had two messages, and an upsert of *)
(* the language returned for u2: the message of u2 is still there and the  *)
(* language of u1 is still the default.                                    *)
C24_Witness ==
    /\ Returned("t1", {"clear_history"})
    /\ Len(before["t1"].history) = 2
    /\ Returned("t2", {"upsert_settings"})
    /\ RowsOf(chat, "u1") = {}
    /\ Cardinality(RowsOf(chat, "u2")) = 1
    /\ settings["u2"].language = "French"
    /\ settings["u1"].language = "English"

(* C25: import message defaults.  An import that returns true with no      *)
(* failed step inserts one chat_history row per entry of                   *)
(* payload.chat_history, in entry order: the row's role is the entry's     *)
(* role, or "user" when the entry has none; its message is the entry's     *)
(* message, or the empty string; its created_at is the entry's created_at, *)
(* or the current time.                                                    *)
C25_ImportDefaults ==
    [][\A t \in Threads :
         (Returns(t, {"import"}) /\ Contains(op[t].payload, "chat_history")) =>
            LET P == op[t].payload["chat_history"]
                inserted == {r \in chat' : r.id > seq}
            IN /\ Cardinality(inserted) = Len(P)
               /\ \A i \in 1..Len(P) :
                     \E r \in inserted :
                        /\ r.id = seq + i
                        /\ r.user_id = op[t].user
                        /\ r.role = (IF Contains(P[i], "role") THEN P[i]["role"] ELSE "user")
                        /\ r.message = (IF Contains(P[i], "message") THEN P[i]["message"] ELSE "")
                        /\ r.created_at = (IF Contains(P[i], "created_at") THEN P[i]["created_at"]
                                           ELSE now)]_vars

(* A merge-import at time 1 of an entry with no key at all and an entry    *)
(* with a message and a created_at of 0, over a history of two messages:   *)
(* the two new rows carry the defaults where the entries had nothing.      *)
C25_Witness ==
    /\ Returned("t1", {"import"})
    /\ ~op["t1"].replace
    /\ Contains(op["t1"].payload, "chat_history")
    /\ op["t1"].payload["chat_history"] = <<(<<>>), [created_at |-> 0, message |-> "bye"]>>
    /\ Len(before["t1"].history) = 2
    /\ \E r \in chat : r.id = 4 /\ r.user_id = "u1" /\ r.role = "user" /\ r.message = "" /\ r.created_at = 1
    /\ \E r \in chat : r.id = 5 /\ r.user_id = "u1" /\ r.role = "user" /\ r.message = "bye" /\ r.created_at = 0
    /\ Cardinality(RowsOf(chat, "u1")) = 4

====
